---- MODULE Spec2Model ----
(***************************************************************************)
(* ChatSphere server (src/server.py): the accept loop, the handshake       *)
(* (handle_auth), the registry of active clients (active_clients), the     *)
(* two fan-outs (broadcast_user_list, broadcast_message), remove_client    *)
(* and the per-connection listener (listen_for_messages).                  *)
(*                                                                         *)
(* Every connection is served by one thread at a time: client_handler,    *)
(* which ends by starting the listener on the same socket.  The threads   *)
(* share active_clients, the sockets in it and the credential store, and  *)
(* no lock guards any of them.  One action of the model is one access to  *)
(* shared state together with the thread-local computation around it, so  *)
(* the interleavings of the model are those the threads can produce.      *)
(***************************************************************************)
EXTENDS Integers, Sequences, FiniteSets, TLC

(* ----------------------------- bounds ---------------------------------- *)

\* The connections (sockets handed out by accept, in this order), each used once.
Conns == {1, 2, 3}

(* --------------------------- wire values ------------------------------- *)

\* Python's None: a field the JSON object does not carry.
None == "<None>"

\* Usernames and passwords the clients use; yosif and mohamed are the
\* default users, alice is not in the store until she registers.
Users == {"yosif", "mohamed", "alice"}
Pwds == {"1010", "pw1"}

\* What sock.recv(2048).decode() can return for the handshake:
\*   empty  - b'' (the peer closed before sending anything)
\*   text   - text json.loads rejects
\*   scalar - valid JSON that is not an object (a number, a list, a string)
\*   object - a JSON object; action/username/password are None when absent
RawObject(a, u, p) == [k |-> "object", action |-> a, username |-> u, password |-> p]
RawOther(k) == [k |-> k, action |-> None, username |-> None, password |-> None]
RawHandshakes ==
    {RawOther("text"), RawOther("scalar")}
    \cup {RawObject(a, u, p) : a \in {"login", "register"},
                               u \in Users \cup {None}, p \in Pwds \cup {None}}
    \cup {RawObject(a, "yosif", "1010") : a \in {"logout", None}}

\* One line of the active phase, as split off the buffer:
\*   blank, text (json.loads rejects it), scalar (JSON, not an object), or an
\*   object with its type, content and sender fields (None when absent).
LineObject(t, ct, s) == [k |-> "object", type |-> t, content |-> ct, sender |-> s]
LineOther(k) == [k |-> k, type |-> None, content |-> None, sender |-> None]
Lines ==
    {LineOther("blank"), LineOther("text"), LineOther("scalar"),
     LineObject(None, "hi", None), LineObject("ping", "hi", None),
     LineObject("message", None, None), LineObject("message", "", None),
     LineObject("message", "hi", None), LineObject("message", "hi", "mallory")}

\* Records the server writes to a socket.
Ack(status, message) == [type |-> "ack", status |-> status, message |-> message]
UserList(users) == [type |-> "user_list", content |-> users]
\* src and n identify the line the record was built from: the n-th line read
\* off connection src.  They are not on the wire.
Message(sender, content, src, n) ==
    [type |-> "message", sender |-> sender, content |-> content,
     time |-> "HH:MM", src |-> src, n |-> n]
NoMsg == [type |-> "none"]

(* ------------------------------ state ---------------------------------- *)

VARIABLES
    db,              \* users table: username -> password
    active_clients,  \* self.active_clients: sequence of <<username, socket>>
    pc,              \* where the thread serving each connection is
    uname,           \* the username handle_auth returned for the connection
    stack,           \* the thread's calls in progress (fan-outs, remove_client)
    buf,             \* listen_for_messages: the complete lines in buffer, each
                     \* with its position n in the connection's stream
    nrecv,           \* lines received on the connection so far
    out,             \* records written to each socket, in order
    gone,            \* the peer's end is closed, and the server has met it
    bcasts,          \* the calls of broadcast_message so far: the record, and
                     \* the sessions that were active when it was called
    serial,          \* the registry, had every append and every
                     \* remove_client taken effect in a single step
    removals,        \* per session: the calls of remove_client made for it so
                     \* far, by its listener or after a failed write to its socket
    accepting        \* accept_loop is running

vars == <<db, active_clients, pc, uname, stack, buf, nrecv, out, gone, bcasts, serial,
          removals, accepting>>

(* --------------------------- Database ---------------------------------- *)

\* Database.add_default_users
default_users == [u \in {"yosif", "mohamed"} |-> "1010"]

\* Database.register_user: the INSERT raises IntegrityError, and the method
\* returns False, when the username is taken (UNIQUE) or when the username or
\* the password is NULL (NOT NULL).
register_user_ok(d, username, password) ==
    /\ username # None
    /\ password # None
    /\ username \notin DOMAIN d

register_user_db(d, username, password) ==
    IF register_user_ok(d, username, password)
    THEN [u \in DOMAIN d \cup {username} |-> IF u = username THEN password ELSE d[u]]
    ELSE d

\* validate_user with the password left out of the WHERE clause.
validate_user_any_password(d, username, password) == username \in DOMAIN d

\* Database.validate_user: a row with this username and this password exists
\* (NULL equals nothing in SQL).
validate_user(d, username, password) ==
    /\ username \in DOMAIN d
    /\ d[username] = password

(* --------------------------- handle_auth ------------------------------- *)

\* json.loads(raw.strip()) of the handshake.
json_loads_ok(raw) == raw.k \in {"scalar", "object"}

\* handle_auth returning the username of a valid login without having sent
\* the success acknowledgment.
handle_auth_unacknowledged(d, raw) ==
    IF raw.k = "empty"
    THEN [resp |-> <<>>, user |-> None, db |-> d, raised |-> FALSE]
    ELSE IF raw.k \notin {"scalar", "object"}
    THEN [resp |-> <<Ack("error", "Invalid JSON")>>, user |-> None, db |-> d,
          raised |-> FALSE]
    ELSE IF raw.k # "object"
    THEN [resp |-> <<>>, user |-> None, db |-> d, raised |-> TRUE]
    ELSE IF raw.action = "register"
    THEN [resp |-> <<IF register_user_ok(d, raw.username, raw.password)
                     THEN Ack("success", None)
                     ELSE Ack("error", "Username already exists")>>,
          user |-> None,
          db |-> register_user_db(d, raw.username, raw.password),
          raised |-> FALSE]
    ELSE IF raw.action = "login"
    THEN IF validate_user(d, raw.username, raw.password)
         THEN [resp |-> <<>>, user |-> raw.username, db |-> d, raised |-> FALSE]
         ELSE [resp |-> <<Ack("error", "Invalid credentials")>>, user |-> None,
               db |-> d, raised |-> FALSE]
    ELSE [resp |-> <<Ack("error", "Unknown action")>>, user |-> None, db |-> d,
          raised |-> FALSE]

\* handle_auth(sock) on the text raw, with the store d:
\*   resp   - the records it sends on the socket, in order
\*   user   - the username it returns, None for a rejection
\*   db     - the store afterwards
\*   raised - it raised instead of returning (creds.get on a non-object)
handle_auth(d, raw) ==
    IF raw.k = "empty"
    THEN [resp |-> <<>>, user |-> None, db |-> d, raised |-> FALSE]
    ELSE IF ~json_loads_ok(raw)
    THEN [resp |-> <<Ack("error", "Invalid JSON")>>, user |-> None, db |-> d,
          raised |-> FALSE]
    ELSE IF raw.k # "object"
    THEN [resp |-> <<>>, user |-> None, db |-> d, raised |-> TRUE]
    ELSE IF raw.action = "register"
    THEN [resp |-> <<IF register_user_ok(d, raw.username, raw.password)
                     THEN Ack("success", None)
                     ELSE Ack("error", "Username already exists")>>,
          user |-> None,
          db |-> register_user_db(d, raw.username, raw.password),
          raised |-> FALSE]
    ELSE IF raw.action = "login"
    THEN IF validate_user(d, raw.username, raw.password)
         THEN [resp |-> <<Ack("success", None)>>, user |-> raw.username, db |-> d,
               raised |-> FALSE]
         ELSE [resp |-> <<Ack("error", "Invalid credentials")>>, user |-> None,
               db |-> d, raised |-> FALSE]
    ELSE [resp |-> <<Ack("error", "Unknown action")>>, user |-> None, db |-> d,
          raised |-> FALSE]

(* ------------------------ calls in progress ---------------------------- *)

\* A frame of stack[c]:
\*   bul_users - broadcast_user_list entered, users not yet read
\*   bul_snap  - msg built, list(self.active_clients) not yet taken
\*   bul, bm   - the for loop of broadcast_user_list / broadcast_message,
\*               about to send msg to snap[i]
\*   rc        - remove_client(user): the filtered list snap is built, not yet
\*               assigned to self.active_clients
\*   blocked   - the for loop of a fan-out, inside a sendall to snap[i] that
\*               does not return: the peer has stopped reading
\* failed is the set of sockets of snap on which sendall has raised so far.
\* Two fields record how the call came about:
\*   absent - remove_client was called with a username the list did not hold
\*            (and, of a broadcast_user_list, it was called by such a call)
\*   reg    - of a broadcast_user_list: self.active_clients as the append or
\*            the assignment before the call left it
Frame(k, msg, snap, i, user) ==
    [k |-> k, msg |-> msg, snap |-> snap, i |-> i, user |-> user, failed |-> {},
     absent |-> FALSE, reg |-> <<>>]

Top(st) == st[Len(st)]
Pop(st) == SubSeq(st, 1, Len(st) - 1)
SetTop(st, f) == [st EXCEPT ![Len(st)] = f]

\* Return from every call whose loop has run off the end of its snapshot.
RECURSIVE Unwind(_)
Unwind(st) ==
    IF st # <<>> /\ Top(st).k \in {"bul", "bm"} /\ Top(st).i > Len(Top(st).snap)
    THEN Unwind(Pop(st))
    ELSE st

\* Where the thread continues once its calls have returned: client_handler
\* starts the listener, the listener's while loop goes on with the buffer, the
\* listener's except clause breaks.
Resume(p, st, b) ==
    IF st # <<>> THEN p
    ELSE IF p = "handler" THEN "listen"
    ELSE IF p = "exit" THEN "done"
    ELSE IF p = "lines" /\ b = <<>> THEN "listen"
    ELSE p

\* [u for u, _ in self.active_clients]
usernames(clients) == [j \in 1..Len(clients) |-> clients[j][1]]

\* [(u, s) for u, s in self.active_clients if u != username]
without(clients, username) == SelectSeq(clients, LAMBDA e : e[1] # username)

\* The call remove_client(username), up to the list it builds.
remove_client_call(username) ==
    [Frame("rc", NoMsg, without(active_clients, username), 0, username)
        EXCEPT !.absent = (without(active_clients, username) = active_clients)]

\* The call broadcast_user_list(), made when the list has just become reg.
broadcast_user_list_call(reg, absent) ==
    [Frame("bul_users", NoMsg, <<>>, 0, None) EXCEPT !.reg = reg, !.absent = absent]

\* The call broadcast_message(message), up to the snapshot its loop runs over.
broadcast_message_call(message) == Frame("bm", message, active_clients, 1, None)

RECURSIVE SumOver(_, _)
SumOver(f, S) ==
    IF S = {} THEN 0
    ELSE LET x == CHOOSE y \in S : TRUE IN f[x] + SumOver(f, S \ {x})

\* Lines received so far, over all connections.
LinesTaken == SumOver(nrecv, Conns)

\* Peers whose end is closed.
Closed == {c \in Conns : gone[c]}

\* Connections whose session is active: logged in and appended, the listener
\* not ended, the peer not known to be gone.
ActiveSessions == {c \in Conns : pc[c] \in {"handler", "listen", "lines"} /\ ~gone[c]}

(* ------------------------------ Init ----------------------------------- *)

Init ==
    /\ db = default_users
    /\ active_clients = <<>>
    /\ pc = [c \in Conns |-> "idle"]
    /\ uname = [c \in Conns |-> None]
    /\ stack = [c \in Conns |-> <<>>]
    /\ buf = [c \in Conns |-> <<>>]
    /\ nrecv = [c \in Conns |-> 0]
    /\ out = [c \in Conns |-> <<>>]
    /\ gone = [c \in Conns |-> FALSE]
    /\ bcasts = {}
    /\ serial = <<>>
    /\ removals = [c \in Conns |-> 0]
    /\ accepting = TRUE

(* ----------------------------- actions --------------------------------- *)

\* A peer closes its end at a moment of its choosing; the server meets the
\* closed end at its next read of, or write to, that socket.  The actions
\* that read or write take peer_closed(s, closes) as the condition "the peer
\* of s has closed by now", where at most closes peers close in a behaviour.
peer_closed(s, closes) == gone[s] \/ Cardinality(Closed) < closes

\* Sockets whose peer has stopped reading: a sendall to one of them is blocked.
Stalled == {stack[c][Len(stack[c])].snap[stack[c][Len(stack[c])].i][2] :
               c \in {b \in Conns : stack[b] # <<>> /\ Top(stack[b]).k = "blocked"}}

\* accept_loop: accept the next connection and start client_handler on it.
accept_loop(c) ==
    /\ accepting
    /\ pc[c] = "idle"
    /\ \A b \in Conns : b < c => pc[b] # "idle"
    /\ pc' = [pc EXCEPT ![c] = "auth"]
    /\ UNCHANGED <<db, active_clients, uname, stack, buf, nrecv, out, gone, bcasts,
                   serial>>
    /\ UNCHANGED <<removals, accepting>>

\* accept_loop: self.server_socket.accept() raises on the connection attempt c
\* (the attempt was aborted, or the process is out of descriptors).  Nothing
\* catches the exception: it leaves accept_loop and __init__, which ends
\* the main thread.
accept_fail(c) ==
    /\ accepting
    /\ pc[c] = "idle"
    /\ \A b \in Conns : b < c => pc[b] # "idle"
    /\ pc' = [pc EXCEPT ![c] = "aborted"]
    /\ accepting' = FALSE
    /\ UNCHANGED <<db, active_clients, uname, stack, buf, nrecv, out, gone, bcasts,
                   serial, removals>>

\* client_handler going on to the append whatever handle_auth returned.
client_handler_auth_no_return(c, raw, closes) ==
    /\ pc[c] = "auth"
    /\ raw.k = "empty" => peer_closed(c, closes)
    /\ gone' = [gone EXCEPT ![c] = (raw.k = "empty")]
    /\ LET r == handle_auth(db, raw) IN
        /\ db' = r.db
        /\ out' = [out EXCEPT ![c] = @ \o r.resp]
        /\ uname' = [uname EXCEPT ![c] = r.user]
        /\ pc' = [pc EXCEPT ![c] = IF r.raised THEN "dead" ELSE "append"]
    /\ UNCHANGED <<active_clients, stack, buf, nrecv, bcasts, serial>>
    /\ UNCHANGED <<removals, accepting>>

\* client_handler up to the append: handle_auth reads raw (b'' from a peer
\* that closed without sending); a rejection closes the socket, an exception
\* out of handle_auth ends the thread.
client_handler_auth(c, raw, closes) ==
    /\ pc[c] = "auth"
    /\ raw.k = "empty" => peer_closed(c, closes)
    /\ gone' = [gone EXCEPT ![c] = (raw.k = "empty")]
    /\ LET r == handle_auth(db, raw) IN
        /\ db' = r.db
        /\ out' = [out EXCEPT ![c] = @ \o r.resp]
        /\ uname' = [uname EXCEPT ![c] = r.user]
        /\ pc' = [pc EXCEPT ![c] =
                    IF r.raised THEN "dead"
                    ELSE IF r.user = None THEN "closed"
                    ELSE "append"]
    /\ UNCHANGED <<active_clients, stack, buf, nrecv, bcasts, serial>>
    /\ UNCHANGED <<removals, accepting>>

\* client_handler: self.active_clients.append((username, client_sock)), then
\* the call of broadcast_user_list.
client_handler_append(c) ==
    /\ pc[c] = "append"
    /\ active_clients' = Append(active_clients, <<uname[c], c>>)
    /\ serial' = Append(serial, <<uname[c], c>>)
    /\ stack' = [stack EXCEPT ![c] =
                    <<broadcast_user_list_call(
                          Append(active_clients, <<uname[c], c>>), FALSE)>>]
    /\ pc' = [pc EXCEPT ![c] = "handler"]
    /\ UNCHANGED <<db, uname, buf, nrecv, out, gone, bcasts>>
    /\ UNCHANGED <<removals, accepting>>

\* broadcast_user_list: users = [...]; msg = json.dumps(...)
broadcast_user_list_users(c) ==
    /\ stack[c] # <<>>
    /\ Top(stack[c]).k = "bul_users"
    /\ stack' = [stack EXCEPT ![c] =
                    SetTop(@, [Top(@) EXCEPT
                                  !.k = "bul_snap",
                                  !.msg = UserList(usernames(active_clients))])]
    /\ UNCHANGED <<db, active_clients, pc, uname, buf, nrecv, out, gone, bcasts,
                   serial>>
    /\ UNCHANGED <<removals, accepting>>

\* broadcast_user_list: list(self.active_clients), the snapshot the loop runs over.
broadcast_user_list_snap(c) ==
    /\ stack[c] # <<>>
    /\ Top(stack[c]).k = "bul_snap"
    /\ LET st == Unwind(SetTop(stack[c],
                     [Top(stack[c]) EXCEPT !.k = "bul", !.snap = active_clients,
                                           !.i = 1])) IN
        /\ stack' = [stack EXCEPT ![c] = st]
        /\ pc' = [pc EXCEPT ![c] = Resume(@, st, buf[c])]
    /\ UNCHANGED <<db, active_clients, uname, buf, nrecv, out, gone, bcasts, serial>>
    /\ UNCHANGED <<removals, accepting>>

\* One iteration of the for loop of a fan-out whose sendall succeeds.
fanout_send_ok(c) ==
    /\ stack[c] # <<>>
    /\ Top(stack[c]).k \in {"bul", "bm"}
    /\ LET f == Top(stack[c])
           s == f.snap[f.i][2]
           st == Unwind(SetTop(stack[c], [f EXCEPT !.i = @ + 1])) IN
        /\ ~gone[s]
        /\ s \notin Stalled
        /\ out' = [out EXCEPT ![s] = Append(@, f.msg)]
        /\ stack' = [stack EXCEPT ![c] = st]
        /\ pc' = [pc EXCEPT ![c] = Resume(@, st, buf[c])]
    /\ UNCHANGED <<db, active_clients, uname, buf, nrecv, gone, bcasts, serial>>
    /\ UNCHANGED <<removals, accepting>>

\* One iteration whose sendall raises: the except clause calls remove_client(u).
fanout_send_fail(c, closes) ==
    /\ stack[c] # <<>>
    /\ Top(stack[c]).k \in {"bul", "bm"}
    /\ LET f == Top(stack[c])
           u == f.snap[f.i][1]
           s == f.snap[f.i][2] IN
        /\ peer_closed(s, closes)
        /\ gone' = [gone EXCEPT ![s] = TRUE]
        /\ removals' = [removals EXCEPT ![s] = @ + 1]
        /\ stack' = [stack EXCEPT ![c] =
                        Append(SetTop(@, [f EXCEPT !.i = @ + 1,
                                                   !.failed = @ \cup {s}]),
                               remove_client_call(u))]
    /\ UNCHANGED <<db, active_clients, pc, uname, buf, nrecv, out, bcasts, serial>>
    /\ UNCHANGED accepting

\* One iteration whose sendall never returns: the socket is blocking and has
\* no timeout, and the peer, one of at most stalls, does not read.
fanout_send_block(c, stalls) ==
    /\ stack[c] # <<>>
    /\ Top(stack[c]).k \in {"bul", "bm"}
    /\ LET f == Top(stack[c])
           s == f.snap[f.i][2] IN
        /\ ~gone[s]
        /\ s \in Stalled \/ Cardinality(Stalled) < stalls
        /\ stack' = [stack EXCEPT ![c] = SetTop(@, [f EXCEPT !.k = "blocked"])]
    /\ UNCHANGED <<db, active_clients, pc, uname, buf, nrecv, out, gone, bcasts, serial>>
    /\ UNCHANGED <<removals, accepting>>

\* remove_client: the assignment to self.active_clients, then the call of
\* broadcast_user_list, after which remove_client returns.
remove_client_store(c) ==
    /\ stack[c] # <<>>
    /\ Top(stack[c]).k = "rc"
    /\ active_clients' = Top(stack[c]).snap
    /\ serial' = without(serial, Top(stack[c]).user)
    /\ stack' = [stack EXCEPT ![c] =
                    SetTop(@, broadcast_user_list_call(Top(@).snap, Top(@).absent))]
    /\ UNCHANGED <<db, pc, uname, buf, nrecv, out, gone, bcasts>>
    /\ UNCHANGED <<removals, accepting>>

\* What the one sock.recv(2048) of handle_auth returns of the bytes a client
\* sends, the handshake record rec first:
\*   upto  - "part": a proper prefix of the record's text (the rest is in a
\*           later segment, or beyond the 2048 bytes); "record": the record's
\*           text, its terminator not yet there; "line": the record and its
\*           terminator
\*   extra - the lines after the terminator that arrived with it
Read(rec, upto, extra) == [rec |-> rec, upto |-> upto, extra |-> extra]

\* raw.strip() followed by json.loads, on what the read returned: a proper
\* prefix of an object's text is no JSON; strip() removes the terminator and
\* blank lines after it; anything else after the record makes json.loads
\* raise JSONDecodeError (extra data).
recv_decode(rd) ==
    IF rd.upto = "part" THEN RawOther("text")
    ELSE IF \E j \in 1..Len(rd.extra) : rd.extra[j].k # "blank" THEN RawOther("text")
    ELSE rd.rec

\* client_handler up to the append, on the read rd: handle_auth runs on the
\* text of that one read; what the read returned after the record is in no
\* variable afterwards (listen_for_messages starts with buffer = "").
handle_auth_recv(c, rd, closes) == client_handler_auth(c, recv_decode(rd), closes)

\* listen_for_messages: sock.recv returns data, here the complete lines chunk.
listen_recv(c, chunk) ==
    /\ pc[c] = "listen"
    /\ ~gone[c]
    /\ buf' = [buf EXCEPT ![c] =
                  [j \in 1..Len(chunk) |-> [line |-> chunk[j], n |-> nrecv[c] + j]]]
    /\ nrecv' = [nrecv EXCEPT ![c] = @ + Len(chunk)]
    /\ pc' = [pc EXCEPT ![c] = "lines"]
    /\ UNCHANGED <<db, active_clients, uname, stack, out, gone, bcasts, serial>>
    /\ UNCHANGED <<removals, accepting>>

\* listen_for_messages: sock.recv returns b'' or raises; the except clause
\* calls remove_client(username).
listen_eof(c, closes) ==
    /\ pc[c] = "listen"
    /\ peer_closed(c, closes)
    /\ gone' = [gone EXCEPT ![c] = TRUE]
    /\ pc' = [pc EXCEPT ![c] = "exit"]
    /\ stack' = [stack EXCEPT ![c] = <<remove_client_call(uname[c])>>]
    /\ removals' = [removals EXCEPT ![c] = @ + 1]
    /\ UNCHANGED <<db, active_clients, uname, buf, nrecv, out, bcasts, serial>>
    /\ UNCHANGED accepting

\* What the body of `while "\n" in buffer` does with one line:
\*   skip  - continue (blank, or json.loads raised JSONDecodeError), or the
\*           packet is an object whose type is not "message"
\*   raise - pkt.get on a non-object, or pkt["content"] on an object without
\*           content: the exception reaches the outer except clause
\*   send  - broadcast_message is called
line_outcome(line) ==
    IF line.k \in {"blank", "text"} THEN "skip"
    ELSE IF line.k # "object" THEN "raise"
    ELSE IF line.type # "message" THEN "skip"
    ELSE IF line.content = None THEN "raise"
    ELSE "send"

\* The record listen_for_messages builds from the n-th line of a connection
\* logged in as username.
build_broadcast(username, line, src, n) == Message(username, line.content, src, n)

\* The split taking the text after the last terminator instead of the first.
split_line_last(b) == b[Len(b)]

\* line, buffer = buffer.split("\n", 1): the line taken, and what is left.
split_line(b) == Head(b)
split_rest(b) == Tail(b)

\* listen_for_messages: one line taken off the buffer and handled, up to the
\* snapshot broadcast_message takes or the list remove_client builds.
listen_line(c) ==
    /\ pc[c] = "lines"
    /\ stack[c] = <<>>
    /\ buf[c] # <<>>
    /\ LET line == split_line(buf[c]).line
           n == split_line(buf[c]).n
           res == line_outcome(line)
           m == build_broadcast(uname[c], line, c, n)
           rest == IF res = "raise" THEN <<>> ELSE split_rest(buf[c])
           st == IF res = "send" THEN Unwind(<<broadcast_message_call(m)>>)
                 ELSE IF res = "raise" THEN <<remove_client_call(uname[c])>>
                 ELSE <<>> IN
        /\ buf' = [buf EXCEPT ![c] = rest]
        /\ stack' = [stack EXCEPT ![c] = st]
        /\ removals' = [removals EXCEPT ![c] = IF res = "raise" THEN @ + 1 ELSE @]
        /\ bcasts' = IF res = "send"
                     THEN bcasts \cup {[msg |-> m, live |-> ActiveSessions]}
                     ELSE bcasts
        /\ pc' = [pc EXCEPT ![c] =
                    IF res = "raise" THEN "exit" ELSE Resume("lines", st, rest)]
    /\ UNCHANGED <<db, active_clients, uname, nrecv, out, gone, serial>>
    /\ UNCHANGED accepting

(* -------------------------- specifications ----------------------------- *)

\* The server serving the connections conns, whose clients send handshakes
\* from raws and chunks of lines from chunks, at most lines lines in all, and
\* of whom at most closes close their end.
Serve(conns, raws, chunks, lines, closes) ==
    \/ \E c \in conns : accept_loop(c)
    \/ \E c \in conns : \E raw \in raws : client_handler_auth(c, raw, closes)
    \/ \E c \in conns : client_handler_append(c)
    \/ \E c \in conns : broadcast_user_list_users(c)
    \/ \E c \in conns : broadcast_user_list_snap(c)
    \/ \E c \in conns : fanout_send_ok(c)
    \/ \E c \in conns : fanout_send_fail(c, closes)
    \/ \E c \in conns : remove_client_store(c)
    \/ \E c \in conns : \E chunk \in chunks :
           LinesTaken + Len(chunk) <= lines /\ listen_recv(c, chunk)
    \/ \E c \in conns : listen_eof(c, closes)
    \/ \E c \in conns : listen_line(c)

\* Every handshake, the empty read included.
AllRaws == RawHandshakes \cup {RawOther("empty")}

\* Handshakes of clients that log in with a stored pair.
Logins == {RawObject("login", u, "1010") : u \in {"yosif", "mohamed"}}

\* Chunks of well-formed chat lines.
ChatLine == LineObject("message", "hi", None)
ChatChunks == {<<ChatLine>>, <<ChatLine, ChatLine>>}

\* Chunks of one line of any kind, or of such a line and a chat line after it.
AnyChunks == {<<l>> : l \in Lines} \cup {<<l, ChatLine>> : l \in Lines}

\* Two clients that log in and chat; one of them closes its end.
ChatLines == 2
NextChat == Serve({1, 2}, Logins, ChatChunks, ChatLines, 1)
SpecChat == Init /\ [][NextChat]_vars

\* Two clients that send any handshake; one chat line, one peer closes.
AuthLines == 1
NextAuth == Serve({1, 2}, AllRaws, {<<ChatLine>>}, AuthLines, 1)
SpecAuth == Init /\ [][NextAuth]_vars

\* Two clients that log in and send lines of any kind; one peer closes.
AnyLines == 1
NextLines == Serve({1, 2}, Logins, AnyChunks, AnyLines, 1)
SpecLines == Init /\ [][NextLines]_vars

\* Three clients that log in one after the other, the first as yosif and the
\* others as mohamed, and send nothing; two of them close their end.  A connection is accepted once the threads of the earlier
\* ones have settled, and a write that fails inside MaxDepth nested calls is
\* the last one followed: remove_client calls broadcast_user_list, whose failed
\* write calls remove_client again, without a bound in the code.
MaxDepth == 2
TrioLogin(c) == RawObject("login", IF c = 1 THEN "yosif" ELSE "mohamed", "1010")
Settled(c) == stack[c] = <<>> /\ pc[c] \in {"listen", "closed", "dead", "done"}
NextTrio ==
    \/ \E c \in Conns : (\A b \in Conns : b < c => Settled(b)) /\ accept_loop(c)
    \/ \E c \in Conns : client_handler_auth(c, TrioLogin(c), 2)
    \/ \E c \in Conns : client_handler_append(c)
    \/ \E c \in Conns : broadcast_user_list_users(c)
    \/ \E c \in Conns : broadcast_user_list_snap(c)
    \/ \E c \in Conns : fanout_send_ok(c)
    \/ \E c \in Conns : Len(stack[c]) < MaxDepth /\ fanout_send_fail(c, 2)
    \/ \E c \in Conns : remove_client_store(c)
    \/ \E c \in Conns : listen_eof(c, 2)
SpecTrio == Init /\ [][NextTrio]_vars

\* Two clients that log in and chat, one line in all; one peer closes, and one
\* peer stops reading.
StallLines == 1
NextStall ==
    \/ Serve({1, 2}, Logins, {<<ChatLine>>}, StallLines, 1)
    \/ \E c \in {1, 2} : fanout_send_block(c, 1)
SpecStall == Init /\ [][NextStall]_vars

\* Two clients that log in and chat, one line in all, one peer closes; an
\* accept may fail.  The handler threads are daemon threads: they run for as
\* long as the main thread does.
AcceptLines == 1
NextAccept ==
    \/ accepting /\ Serve({1, 2}, Logins, {<<ChatLine>>}, AcceptLines, 1)
    \/ \E c \in {1, 2} : accept_fail(c)
SpecAccept == Init /\ [][NextAccept]_vars

\* What a read of the handshake of a client logging in can return: the
\* record in part or whole, alone or with a blank or a chat line behind it.
LoginReads ==
    {Read(rec, upto, <<>>) : rec \in Logins, upto \in {"part", "record", "line"}}
    \cup {Read(rec, "line", <<l>>) : rec \in Logins, l \in {LineOther("blank"), ChatLine}}

\* Two clients that log in and chat, one line in all, one peer closes; the
\* read of the handshake returns whatever part of the client's bytes is there.
FrameLines == 1
NextFrame ==
    \/ Serve({1, 2}, Logins, {<<ChatLine>>}, FrameLines, 1)
    \/ \E c \in {1, 2} : \E rd \in LoginReads : handle_auth_recv(c, rd, 1)
SpecFrame == Init /\ [][NextFrame]_vars

(* ------------------------------ claims --------------------------------- *)

Socks(clients) == {clients[j][2] : j \in 1..Len(clients)}
Names(clients) == {clients[j][1] : j \in 1..Len(clients)}
Delivered(m, s) == \E j \in 1..Len(out[s]) : out[s][j] = m

\* No handler thread is inside an operation: each is yet to be accepted,
\* blocked in a recv that has nothing to return, or ended.
Quiescent ==
    \A c \in Conns :
        /\ stack[c] = <<>>
        /\ pc[c] \in {"idle", "auth", "listen", "closed", "dead", "done"}
        /\ pc[c] = "listen" => ~gone[c]

\* The connection completed a successful login.
LoggedIn(c) == pc[c] \in {"handler", "listen", "lines", "exit", "done"}

\* C1: at every quiescent point the set of usernames in the registry is the
\* set of usernames of the connections that completed a successful login and
\* have not closed.
C1_RegistryMirrorsSessions ==
    Quiescent =>
        Names(active_clients) = {uname[c] : c \in {b \in Conns : LoggedIn(b) /\ ~gone[b]}}

\* C2: the appends and remove_clients of the threads behave as if each took
\* effect in one step: the registry is what those steps, one at a time, make it.
C2_RegistrySerializable == active_clients = serial

\* The fan-out of the broadcast_message call b is still running.
InFanout(b) ==
    \E j \in 1..Len(stack[b.msg.src]) : stack[b.msg.src][j].msg = b.msg

\* C3: a chat message accepted from a connection logged in as U carries U as
\* its sender and, once its fan-out is over, has been written to every session
\* that was active when it was accepted and is still connected, the sender's
\* own connection among them.
C3_MessageReachesEverySession ==
    \A b \in bcasts :
        /\ b.msg.sender = uname[b.msg.src]
        /\ ~InFanout(b) =>
              \A s \in b.live \cup {b.msg.src} : ~gone[s] => Delivered(b.msg, s)

\* Thread c takes a line off its buffer in this step.
LineStep(c) ==
    /\ pc[c] = "lines"
    /\ stack[c] = <<>>
    /\ buf[c] # <<>>
    /\ buf'[c] # buf[c]

\* A record that is not a chat message: unparsable, not an object, of another
\* type, or of type "message" without content.
Malformed(line) ==
    \/ line.k \in {"text", "scalar"}
    \/ line.k = "object" /\ (line.type # "message" \/ line.content = None)

InRegistry(clients, c) == \E j \in 1..Len(clients) : clients[j] = <<uname[c], c>>

\* C4: a malformed record never ends the session: after it the handler goes
\* on reading the connection, and the session is in the registry if it was.
C4_MalformedKeepsSession ==
    [][\A c \in Conns :
          LineStep(c) /\ Malformed(buf[c][1].line) =>
              /\ pc'[c] \in {"lines", "listen"}
              /\ stack'[c] = <<>>
              /\ InRegistry(active_clients, c) => InRegistry(active_clients', c)]_vars

\* C5: a line gives rise to a call of broadcast_message exactly if it is a
\* record of type "message" with non-empty content.
C5_BroadcastIffNonEmptyMessage ==
    [][\A c \in Conns :
          LineStep(c) =>
              ((bcasts' # bcasts) <=>
                  (/\ buf[c][1].line.k = "object"
                   /\ buf[c][1].line.type = "message"
                   /\ buf[c][1].line.content \notin {None, ""}))]_vars

\* The pair is in the credential store d.
InStore(d, username, password) ==
    \E u \in DOMAIN d : u = username /\ d[u] = password

\* C6: a register handshake is acknowledged with success exactly if its
\* username is not in the store, with an error if it is; either way the
\* connection is closed, is not added to the registry and starts no fan-out.
C6_RegisterIffFresh ==
    [][\A c \in Conns : \A raw \in RawHandshakes :
          (/\ raw.k = "object"
           /\ raw.action = "register"
           /\ raw.username # None
           /\ client_handler_auth(c, raw, 1)) =>
              /\ out'[c] = <<IF raw.username \notin DOMAIN db
                             THEN Ack("success", None)
                             ELSE Ack("error", "Username already exists")>>
              /\ pc'[c] = "closed"
              /\ stack'[c] = <<>>
              /\ active_clients' = active_clients
              /\ c \notin Socks(active_clients)]_vars

\* C7, the handshake: a login with a stored pair is acknowledged with success
\* and goes on to the append under that username; any other login is
\* acknowledged with an error and the connection is closed.
C7_LoginStep ==
    \A c \in Conns : \A raw \in RawHandshakes :
        (raw.k = "object" /\ raw.action = "login" /\ client_handler_auth(c, raw, 1)) =>
            IF InStore(db, raw.username, raw.password)
            THEN /\ out'[c] = <<Ack("success", None)>>
                 /\ uname'[c] = raw.username
                 /\ pc'[c] = "append"
            ELSE /\ out'[c] = <<Ack("error", "Invalid credentials")>>
                 /\ pc'[c] = "closed"

\* C7, the append: the next step of a connection that logged in puts it at
\* the end of the registry under the username it logged in with.
C7_AppendStep ==
    \A c \in Conns :
        (pc[c] = "append" /\ pc'[c] # "append") =>
            active_clients' = Append(active_clients, <<uname[c], c>>)

\* C7, never added: a connection whose handshake was answered with an error
\* is never in the registry, nor in the snapshot of a fan-out.
C7_RejectedNeverAdded ==
    \A c \in Conns :
        (out[c] # <<>> /\ out[c][1] \in {Ack("error", "Invalid credentials")}) =>
            /\ c \notin Socks(active_clients)
            /\ \A b \in Conns : \A j \in 1..Len(stack[b]) : c \notin Socks(stack[b][j].snap)

MalformedHandshake(raw) ==
    \/ raw.k \in {"text", "scalar"}
    \/ raw.k = "object" /\ raw.action \notin {"login", "register"}

\* C8: every non-empty handshake is answered with exactly one record, and a
\* malformed one with an error acknowledgment, the connection being closed.
C8_OneResponsePerHandshake ==
    [][\A c \in Conns : \A raw \in RawHandshakes :
          client_handler_auth(c, raw, 1) =>
              /\ Len(out'[c]) = 1
              /\ out'[c][1].type = "ack"
              /\ MalformedHandshake(raw) =>
                    (out'[c][1].status = "error" /\ pc'[c] = "closed")]_vars

\* Thread c returns, in this step, from the fan-out that is frame j of its stack.
FanoutEnds(c, j) ==
    /\ j \in 1..Len(stack[c])
    /\ j > Len(stack'[c])
    /\ stack[c][j].k \in {"bul", "bm"}

\* C9: when a fan-out in which the write to a session's sink failed is over,
\* its record has been written to every other sink of its snapshot whose peer
\* is there, and the registry does not contain the session whose write failed.
C9_FailedSinkRemovedOthersServed ==
    [][\A c \in Conns : \A j \in 1..Len(stack[c]) :
          (FanoutEnds(c, j) /\ stack[c][j].failed # {}) =>
              /\ \A s \in Socks(stack[c][j].snap) :
                    ~gone'[s] => \E i \in 1..Len(out'[s]) : out'[s][i] = stack[c][j].msg
              /\ \A s \in stack[c][j].failed : s \notin Socks(active_clients')]_vars

\* C10: on every sink, the chat messages read from one connection appear in
\* the order in which they were read from it, each at most once.
C10_PerSenderOrder ==
    \A s \in Conns : \A i, j \in 1..Len(out[s]) :
        (/\ i < j
         /\ out[s][i].type = "message"
         /\ out[s][j].type = "message"
         /\ out[s][i].src = out[s][j].src) =>
            out[s][i].n < out[s][j].n

\* C10 witness: a sink received two messages of one connection with a record
\* of another thread's fan-out between them.
C10_Witness ==
    \E s \in Conns : \E i, j, k \in 1..Len(out[s]) :
        /\ i < j /\ j < k
        /\ out[s][i].type = "message"
        /\ out[s][k].type = "message"
        /\ out[s][i].src = out[s][k].src
        /\ out[s][i].n < out[s][k].n
        /\ out[s][j].type = "user_list"

\* Thread c returns, in this step, from the broadcast_user_list that is frame j
\* of its stack (at once, when the snapshot it takes is empty).
UserListEnds(c, j) ==
    /\ j \in 1..Len(stack[c])
    /\ j > Len(stack'[c])
    /\ stack[c][j].k \in {"bul_snap", "bul"}

\* C11: every change of the registry (an append, or a remove_client of a
\* username it held) is followed by a user_list record that lists the
\* registry's usernames in the registry's order, and when the
\* broadcast_user_list the change called is over, that record has been
\* written to every session that was in the registry after the change and is
\* still connected.
C11_ChangeFollowedByUserList ==
    /\ [][\A c \in Conns :
             (/\ stack[c] # <<>> /\ Top(stack[c]).k = "bul_users"
              /\ stack'[c] # <<>> /\ Top(stack'[c]).k = "bul_snap") =>
                 /\ Top(stack'[c]).msg.type = "user_list"
                 /\ Top(stack'[c]).msg.content =
                        [i \in 1..Len(active_clients) |-> active_clients[i][1]]]_vars
    /\ [][\A c \in Conns : \A j \in 1..Len(stack[c]) :
             (UserListEnds(c, j) /\ ~stack[c][j].absent) =>
                 \A s \in Socks(stack[c][j].reg) :
                     ~gone'[s] => \E i \in 1..Len(out'[s]) : out'[s][i] = stack[c][j].msg]_vars

\* C12: over the lifetime of a session remove_client is called for it exactly
\* once: never a second time, whichever of its listener and the fan-outs
\* writing to its socket detects the close, and once when its listener ends.
C12_RemovedExactlyOnce ==
    \A s \in Conns :
        /\ removals[s] <= 1
        /\ pc[s] \in {"exit", "done"} => removals[s] >= 1

\* C13: a remove_client called with a username the registry does not hold
\* is a no-op: no step of the call, or of the broadcast_user_list it calls,
\* writes to a socket, and its assignment leaves the registry, if no other
\* thread has changed it since the call read it, as it is.
C13_RemoveAbsentIsNoOp ==
    [][\A c \in Conns :
          (/\ stack[c] # <<>>
           /\ Top(stack[c]).absent
           /\ stack'[c] # stack[c]) =>
              /\ out' = out
              /\ (Top(stack[c]).k = "rc" /\ Top(stack[c]).snap = active_clients) =>
                    active_clients' = active_clients]_vars

\* Every thread but c is yet to be accepted, blocked in a recv that has
\* nothing to return, or ended.
OthersQuiet(c) ==
    \A b \in Conns \ {c} :
        /\ stack[b] = <<>>
        /\ pc[b] \in {"idle", "auth", "listen", "closed", "dead", "done"}
        /\ pc[b] = "listen" => ~gone[b]

\* C14: a write that blocks for good holds up nothing but itself: once a
\* thread is inside a sendall that does not return and the other threads have
\* nothing left to do, every other sink of that fan-out's snapshot whose peer
\* is connected and reading has the record.  (The thread takes no further
\* step, so a sink that lacks the record then does not get it.)
C14_StalledSinkDelaysOnlyItself ==
    \A c \in Conns :
        (stack[c] # <<>> /\ Top(stack[c]).k = "blocked" /\ OthersQuiet(c)) =>
            \A j \in 1..Len(Top(stack[c]).snap) :
                LET s == Top(stack[c]).snap[j][2] IN
                    (j # Top(stack[c]).i /\ ~gone[s] /\ s \notin Stalled) =>
                        Delivered(Top(stack[c]).msg, s)

\* Thread c takes, in this step, the snapshot a fan-out runs over: of a
\* broadcast_user_list, or of the broadcast_message of a line it handles.
SnapshotStep(c) ==
    \/ stack[c] # <<>> /\ Top(stack[c]).k = "bul_snap" /\ stack'[c] # stack[c]
    \/ LineStep(c) /\ bcasts' # bcasts

\* The connection logged in and was appended, and its peer has not disconnected
\* (the server closes no socket of a connection that logged in).
Open(c) == LoggedIn(c) /\ ~gone[c]

\* C15: while two connections logged in under one username are both
\* connected, every chat and presence fan-out writes to both: both are in the
\* snapshot it takes.
C15_DuplicateLoginBothServed ==
    [][\A c \in Conns : SnapshotStep(c) =>
          \A a, b \in Conns :
              (a # b /\ uname[a] = uname[b] /\ Open(a) /\ Open(b)) =>
                  {a, b} \subseteq Socks(active_clients)]_vars

\* The sequence lists no element twice.
NoRepeat(seq) == \A i, j \in 1..Len(seq) : i # j => seq[i] # seq[j]

\* C16: the registry holds at most one entry per username, and no user_list
\* record written to a socket lists a username twice.
C16_OneEntryPerUsername ==
    /\ NoRepeat([j \in 1..Len(active_clients) |-> active_clients[j][1]])
    /\ \A s \in Conns : \A i \in 1..Len(out[s]) :
           out[s][i].type = "user_list" => NoRepeat(out[s][i].content)

\* C17: a login refused for its credentials is answered with the error
\* acknowledgment and the connection stays open: the server goes on to read the
\* next handshake from it.
C17_RejectedLoginMayRetry ==
    [][\A c \in Conns : \A raw \in RawHandshakes :
          (/\ raw.k = "object"
           /\ raw.action = "login"
           /\ ~InStore(db, raw.username, raw.password)
           /\ client_handler_auth(c, raw, 1)) =>
              /\ out'[c] = <<Ack("error", "Invalid credentials")>>
              /\ pc'[c] = "auth"]_vars

\* C18: a failed accept does not stop the accept loop: after it the loop is
\* running, ready to accept the next connection.
C18_AcceptLoopSurvivesFailure ==
    (\E c \in Conns : pc[c] = "aborted") => accepting

\* The server has released the connection's socket: client_handler called
\* client_sock.close() after a rejection; or, no code closing the socket of a
\* connection that logged in, nothing refers to the socket object any more, so
\* that it is closed when it is collected: its threads have ended, neither the
\* registry nor a list a thread is working on holds it, and accept_loop has
\* bound its variable client_sock to a later connection.
sock_closed(c) ==
    \/ pc[c] = "closed"
    \/ /\ pc[c] = "done"
       /\ c \notin Socks(active_clients)
       /\ \A b \in Conns : \A j \in 1..Len(stack[b]) : c \notin Socks(stack[b][j].snap)
       /\ \E b \in Conns : b > c /\ pc[b] \notin {"idle", "aborted"}

\* C19: once the listener of a connection whose peer is gone has ended and no
\* thread is inside a fan-out or a remove_client, the server has released the
\* connection's socket.
C19_RemovedSessionSocketClosed ==
    \A c \in Conns :
        (/\ pc[c] = "done"
         /\ gone[c]
         /\ \A b \in Conns : stack[b] = <<>>) =>
            sock_closed(c)

\* The positions of the user_list records written to socket s.
UserListsAt(s) == {i \in 1..Len(out[s]) : out[s][i].type = "user_list"}

\* C20: at every quiescent point the last user_list record written to each
\* session in the registry lists the registry's usernames, in its order.
C20_PresenceConverges ==
    Quiescent =>
        \A s \in Socks(active_clients) :
            ~gone[s] =>
                /\ UserListsAt(s) # {}
                /\ \A i \in UserListsAt(s) :
                       (\A j \in UserListsAt(s) : j <= i) =>
                           out[s][i].content =
                               [j \in 1..Len(active_clients) |-> active_clients[j][1]]

\* C21: the handshake is one newline-framed record: a login with a stored pair
\* is acknowledged with success and goes on to the append however much of the
\* client's bytes the read returns, and the records the read returned after
\* the handshake's terminator are the first lines the listener handles.
C21_HandshakeIsOneFramedRecord ==
    [][\A c \in Conns : \A rd \in LoginReads :
          (/\ InStore(db, rd.rec.username, rd.rec.password)
           /\ handle_auth_recv(c, rd, 1)) =>
              /\ out'[c] = <<Ack("success", None)>>
              /\ pc'[c] = "append"
              /\ [j \in 1..Len(buf'[c]) |-> buf'[c][j].line] =
                     SelectSeq(rd.extra, LAMBDA l : l.k # "blank")]_vars

\* C22: the first record the server writes to a connection is the answer to
\* its handshake, and on a connection that logged in it is the success
\* acknowledgment, the only acknowledgment it gets: no user_list and no chat
\* message of any thread's fan-out is written to it before.
C22_AckIsFirstRecord ==
    \A c \in Conns :
        /\ out[c] # <<>> => out[c][1].type = "ack"
        /\ (pc[c] = "append" \/ LoggedIn(c)) =>
              /\ out[c] # <<>>
              /\ out[c][1] = Ack("success", None)
              /\ \A i \in 2..Len(out[c]) : out[c][i].type # "ack"

\* C22 witness: a connection logged in while the other's session was active,
\* and after its acknowledgment got a user_list and a chat message read from
\* the other connection.
C22_Witness ==
    \E c, b \in Conns :
        /\ c # b
        /\ LoggedIn(c)
        /\ Len(out[c]) >= 3
        /\ out[c][1] = Ack("success", None)
        /\ \E i \in 2..Len(out[c]) : out[c][i].type = "user_list"
        /\ \E i \in 2..Len(out[c]) : out[c][i].type = "message" /\ out[c][i].src = b

\* C23: a connection for which handle_auth has not returned a username (it is
\* still in the handshake, or its login was refused, or it registered, or its
\* handshake was malformed) is in no registry and in no snapshot of a fan-out,
\* has been written nothing but the answer to its handshake, and has had no
\* line read from it and no broadcast_message called for it.
C23_UnauthenticatedIsolated ==
    \A c \in Conns :
        uname[c] = None =>
            /\ c \notin Socks(active_clients)
            /\ \A b \in Conns : \A j \in 1..Len(stack[b]) : c \notin Socks(stack[b][j].snap)
            /\ \A i \in 1..Len(out[c]) : out[c][i].type = "ack"
            /\ Len(out[c]) <= 1
            /\ stack[c] = <<>>
            /\ buf[c] = <<>>
            /\ nrecv[c] = 0
            /\ \A b \in bcasts : b.msg.src # c

\* C23 witness: a connection was turned away with an error acknowledgment
\* while the other connection's thread is in the fan-out of a chat message.
C23_Witness ==
    \E c, b \in Conns :
        /\ c # b
        /\ uname[c] = None
        /\ pc[c] = "closed"
        /\ Len(out[c]) = 1
        /\ out[c][1].status = "error"
        /\ stack[b] # <<>>
        /\ Top(stack[b]).k = "bm"

\* The sinks for which thread c has a remove_client call in progress,
\* outermost first: its own, for the call its listener's except clause made,
\* and the one written to, for every fan-out of its stack whose except clause
\* is running.
removing(c) ==
    (IF pc[c] = "exit" THEN <<c>> ELSE <<>>)
    \o [j \in 1..(Len(stack[c]) - 1) |-> stack[c][j].snap[stack[c][j].i - 1][2]]

====
